---- MODULE Spec2Model ----
(***************************************************************************)
(* Graceful shutdown of a tonic server (src/src/main.rs).                  *)
(*                                                                         *)
(* Three tokio tasks share one Latch (a zero-permit Semaphore that is      *)
(* closed to wake its waiters):                                            *)
(*   main - the orchestrator: installs the SIGINT listener, spawns the     *)
(*          server, waits on the latch, marks the health status            *)
(*          NOT_SERVING and races the server's JoinHandle against the      *)
(*          grace-period sleep in one select!;                             *)
(*   sig  - the listener spawned by shutdown_signal(): one recv(), one     *)
(*          latch();                                                       *)
(*   srv  - serve_with_shutdown: serves until its shutdown future (a       *)
(*          wait() on the latch) resolves, then drains in-flight work.     *)
(*                                                                         *)
(* LatchSpec drives the Latch alone with arbitrary holders calling latch() *)
(* and wait() in any order.                                                *)
(***************************************************************************)
EXTENDS Integers, FiniteSets, Sequences, TLC

\* ---- bounds ----
MaxSignals == 2      \* SIGINTs the environment delivers
MaxGrace == 2        \* largest --grace-period-ms, in timer ticks
MaxInflight == 1     \* connections in flight at the server
MaxCalls == 2        \* latch()/wait() calls per holder in LatchSpec

\* Semaphore::new(0)
InitialPermits == 0

Tasks == {"main", "srv", "sig"}
Holders == {"h1", "h2", "h3"}

VARIABLES
    addrOk,        \* address.parse() succeeds
    sigInstallOk,  \* signal(SignalKind::interrupt()) succeeds
    grace,         \* Args.grace_period_ms : Option<u64>
    pc,            \* position of each task
    sem,           \* the Semaphore inside the Latch
    woken,         \* tasks whose waker has been called and that have not run yet
    sigPending,    \* a SIGINT is recorded for the listener's Signal stream
    sigsSent,      \* SIGINTs delivered so far
    status,        \* health status per service name
    timer,         \* the Sleep inside ungraceful_exit
    inflight,      \* connections the server is still working on
    outcome,       \* which arm of the select ran / how main ended
    exitCode,      \* process exit code, -1 while running
    hpc,           \* LatchSpec: position of each holder
    hcalls,        \* LatchSpec: calls made by each holder
    hist           \* history of the run, read by the properties only

vars == <<addrOk, sigInstallOk, grace, pc, sem, woken, sigPending, sigsSent,
          status, timer, inflight, outcome, exitCode, hpc, hcalls, hist>>

config == <<addrOk, sigInstallOk, grace>>
harness == <<hpc, hcalls>>

\* ---- Option<u64> ----
None == [some |-> FALSE, ms |-> 0]
Some(d) == [some |-> TRUE, ms |-> d]
GraceChoices == {None} \cup {Some(d) : d \in 0..MaxGrace}

\* ---- Latch: a Semaphore with no permits, closed to wake the waiters ----
\* latch() as a transient pulse: only a call that finds waiters leaves a mark
LatchLatchPulse(s) == [s EXCEPT !.closed = (s.waiters # {}), !.waiters = {}]

\* Latch::new with Semaphore::new(1)
LatchNewOnePermit == [closed |-> FALSE, permits |-> 1, waiters |-> {}]

\* Latch::new: Semaphore::new(0), open and without permits
LatchNew == [closed |-> FALSE, permits |-> InitialPermits, waiters |-> {}]

\* latch(): Semaphore::close() sets the closed flag and drains the wait queue
LatchLatch(s) == [s EXCEPT !.closed = TRUE, !.waiters = {}]

\* the tasks close() wakes
LatchWakes(s) == s.waiters

\* acquire() that looks at the permits only and queues otherwise
LatchWaitPollNoClosedCheck(s, t) ==
    IF s.permits > 0
    THEN [ready |-> TRUE, sem |-> [s EXCEPT !.waiters = @ \ {t}]]
    ELSE [ready |-> FALSE, sem |-> [s EXCEPT !.waiters = @ \cup {t}]]

\* one poll of wait(): acquire() fails at once on a closed semaphore, takes a
\* permit when there is one (dropped at once by `let _ =`), else queues t
LatchWaitPoll(s, t) ==
    IF s.closed
    THEN [ready |-> TRUE, sem |-> [s EXCEPT !.waiters = @ \ {t}]]
    ELSE IF s.permits > 0
         THEN [ready |-> TRUE, sem |-> [s EXCEPT !.waiters = @ \ {t}]]
         ELSE [ready |-> FALSE, sem |-> [s EXCEPT !.waiters = @ \cup {t}]]

\* ---- health reporter ----
HealthReporter == [n \in {""} |-> "SERVING"]
\* set_service_status on a name the reporter does not serve
SetServiceStatusOtherName(st, name, v) == st

SetServiceStatus(st, name, v) == [st EXCEPT ![name] = v]

\* ---- the two futures of the select ----
NoTimer == [armed |-> FALSE, left |-> 0, starts |-> 0]

\* ungraceful_exit that never creates the sleep
PollUngracefulNeverArms(tmr, g) == tmr

\* ungraceful_exit with a missing grace period read as 0 ms
PollUngracefulDefaultZero(tmr, g) ==
    IF tmr.armed THEN tmr
    ELSE [armed |-> TRUE, left |-> g.ms, starts |-> tmr.starts + 1]

\* ungraceful_exit that creates a new sleep on every poll
PollUngracefulRearms(tmr, g) ==
    IF g.some
    THEN [armed |-> TRUE, left |-> g.ms, starts |-> tmr.starts + 1]
    ELSE tmr

\* one poll of ungraceful_exit: the first poll creates the sleep, later polls
\* look at the same sleep; without a grace period it is pending forever
PollUngraceful(tmr, g) ==
    IF g.some
    THEN IF tmr.armed THEN tmr
         ELSE [armed |-> TRUE, left |-> g.ms, starts |-> tmr.starts + 1]
    ELSE tmr

Elapsed(tmr) == tmr.armed /\ tmr.left = 0

Finished == {"done_ok", "failed"}
JoinReady(p) == p.srv \in Finished

\* select! whose first arm awaits something that is always ready
SelectPollFirstArmReady(first, joinReady, tmr, g) ==
    LET t2 == PollUngraceful(tmr, g) IN
    IF first = "graceful"
    THEN [branch |-> "graceful", timer |-> tmr]
    ELSE IF Elapsed(t2) THEN [branch |-> "ungraceful", timer |-> t2]
         ELSE [branch |-> "graceful", timer |-> t2]

\* one poll of select!: the arms are polled starting at `first` (select!
\* picks the start at random), and the first arm found ready runs
SelectPoll(first, joinReady, tmr, g) ==
    LET t2 == PollUngraceful(tmr, g) IN
    IF first = "graceful"
    THEN IF joinReady THEN [branch |-> "graceful", timer |-> tmr]
         ELSE IF Elapsed(t2) THEN [branch |-> "ungraceful", timer |-> t2]
              ELSE [branch |-> "pending", timer |-> t2]
    ELSE IF Elapsed(t2) THEN [branch |-> "ungraceful", timer |-> t2]
         ELSE IF joinReady THEN [branch |-> "graceful", timer |-> t2]
              ELSE [branch |-> "pending", timer |-> t2]

\* main returned with the spawned tasks left detached
RuntimeDropLeaks(p) == [p EXCEPT !.main = "exited"]

\* main returned: the runtime is dropped and with it every unfinished task
RuntimeDrop(p) ==
    [t \in Tasks |->
        IF t = "main" THEN "exited"
        ELSE IF p[t] \in {"unspawned", "done"} \cup Finished THEN p[t]
             ELSE "cancelled"]

Running == pc.main # "exited"

\* ---- history ----
NoHist == [drainEntries |-> 0, statusSets |-> 0, closeTransitions |-> 0,
           latchCalls |-> 0, returned |-> {}, suspendedOnce |-> {},
           bindFailed |-> FALSE,
           firstResolved |-> "none",
           atPoll |-> [decided |-> FALSE, join |-> FALSE, timeout |-> FALSE]]

\* main is between the return of its wait() and the decision of the select
Draining == {"set_status", "select", "select_pending"}

\* the first of the two futures to resolve while main is draining: "drain" is
\* a clean end of the drain, "failed" a server error, "timer" the sleep; a
\* server that ended before main was draining is recorded as "before"
Resolved(h, who, p) ==
    IF h.firstResolved = "none"
    THEN [h EXCEPT !.firstResolved = IF p.main \in Draining THEN who ELSE "before"]
    ELSE h

\* a poll of wait() by t either returned or left t suspended
Waited(h, r, t) ==
    IF r.ready THEN [h EXCEPT !.returned = @ \cup {t}]
    ELSE [h EXCEPT !.suspendedOnce = @ \cup {t}]

Latched(h, s, s2) ==
    [h EXCEPT !.latchCalls = @ + 1,
              !.closeTransitions = @ + (IF s.closed # s2.closed THEN 1 ELSE 0)]

Init ==
    /\ addrOk \in BOOLEAN
    /\ sigInstallOk \in BOOLEAN
    /\ grace \in GraceChoices
    /\ pc = [t \in Tasks |-> IF t = "main" THEN "start" ELSE "unspawned"]
    /\ sem = LatchNew
    /\ woken = {}
    /\ sigPending = FALSE
    /\ sigsSent = 0
    /\ status = HealthReporter
    /\ timer = NoTimer
    /\ inflight = 0
    /\ outcome = "NONE"
    /\ exitCode = -1
    /\ hpc = [h \in Holders |-> "idle"]
    /\ hcalls = [h \in Holders |-> 0]
    /\ hist = NoHist

\* ---- main, the orchestrator ----

\* main:25 shutdown_signal()?: install the SIGINT stream and spawn the listener
OrchInstallSignal ==
    /\ pc.main = "start"
    /\ IF sigInstallOk
       THEN /\ pc' = [pc EXCEPT !.main = "spawn_server", !.sig = "recv"]
            /\ UNCHANGED <<outcome, exitCode>>
       ELSE /\ pc' = RuntimeDrop(pc)
            /\ outcome' = "STARTUP_FAILURE"
            /\ exitCode' = 1
    /\ UNCHANGED <<config, sem, woken, sigPending, sigsSent, status, timer,
                   inflight, harness, hist>>

\* main:27-37 address.parse()? and tokio::spawn of serve_with_shutdown
OrchSpawnServer ==
    /\ pc.main = "spawn_server"
    /\ IF addrOk
       THEN /\ pc' = [pc EXCEPT !.main = "wait", !.srv = "spawned"]
            /\ UNCHANGED <<outcome, exitCode>>
       ELSE /\ pc' = RuntimeDrop(pc)
            /\ outcome' = "STARTUP_FAILURE"
            /\ exitCode' = 1
    /\ UNCHANGED <<config, sem, woken, sigPending, sigsSent, status, timer,
                   inflight, harness, hist>>

\* main:39 without the wait on the latch
OrchWaitSkipsLatch ==
    /\ pc.main = "wait"
    /\ pc' = [pc EXCEPT !.main = "set_status"]
    /\ hist' = [hist EXCEPT !.drainEntries = @ + 1]
    /\ UNCHANGED <<config, sem, woken, sigPending, sigsSent, status, timer,
                   inflight, outcome, exitCode, harness>>

\* main:39 shutdown.wait().await, first poll
OrchWait ==
    /\ pc.main = "wait"
    /\ LET r == LatchWaitPoll(sem, "main") IN
       /\ sem' = r.sem
       /\ pc' = [pc EXCEPT !.main = IF r.ready THEN "set_status" ELSE "wait_suspended"]
       /\ hist' = IF r.ready
                  THEN [Waited(hist, r, "main") EXCEPT !.drainEntries = @ + 1]
                  ELSE Waited(hist, r, "main")
    /\ UNCHANGED <<config, woken, sigPending, sigsSent, status, timer, inflight,
                   outcome, exitCode, harness>>

\* main:39 shutdown.wait().await, polled again after a wake
OrchWaitResume ==
    /\ pc.main = "wait_suspended"
    /\ "main" \in woken
    /\ woken' = woken \ {"main"}
    /\ LET r == LatchWaitPoll(sem, "main") IN
       /\ sem' = r.sem
       /\ pc' = [pc EXCEPT !.main = IF r.ready THEN "set_status" ELSE "wait_suspended"]
       /\ hist' = IF r.ready
                  THEN [Waited(hist, r, "main") EXCEPT !.drainEntries = @ + 1]
                  ELSE Waited(hist, r, "main")
    /\ UNCHANGED <<config, sigPending, sigsSent, status, timer, inflight,
                   outcome, exitCode, harness>>

\* main:41-43 with the future of set_service_status never awaited
OrchSetStatusNotAwaited ==
    /\ pc.main = "set_status"
    /\ pc' = [pc EXCEPT !.main = "select"]
    /\ UNCHANGED <<config, sem, woken, sigPending, sigsSent, status, timer,
                   inflight, outcome, exitCode, harness, hist>>

\* main:40-43 set_service_status("", NotServing).await
OrchSetStatus ==
    /\ pc.main = "set_status"
    /\ status' = SetServiceStatus(status, "", "NOT_SERVING")
    /\ pc' = [pc EXCEPT !.main = "select"]
    /\ hist' = [hist EXCEPT !.statusSets = @ + 1]
    /\ UNCHANGED <<config, sem, woken, sigPending, sigsSent, timer, inflight,
                   outcome, exitCode, harness>>

\* main:45-62 one poll of the select!: the first at "select", a later one
\* once the JoinHandle or the sleep has woken main
OrchSelect ==
    /\ \/ pc.main = "select"
       \/ pc.main = "select_pending" /\ (JoinReady(pc) \/ Elapsed(timer))
    /\ \E first \in {"graceful", "ungraceful"} :
         LET r == SelectPoll(first, JoinReady(pc), timer, grace)
             seen == [decided |-> TRUE, join |-> JoinReady(pc),
                      timeout |-> Elapsed(PollUngraceful(timer, grace))]
             h1 == IF Elapsed(r.timer) /\ ~Elapsed(timer)
                   THEN Resolved(hist, "timer", pc) ELSE hist
         IN
         /\ timer' = r.timer
         /\ IF r.branch = "pending"
            THEN /\ pc' = [pc EXCEPT !.main = "select_pending"]
                 /\ outcome' = outcome
                 /\ hist' = h1
            ELSE /\ pc' = [pc EXCEPT !.main = "return"]
                 /\ outcome' = IF r.branch = "graceful"
                               THEN "GRACEFUL_EXIT" ELSE "FORCED_EXIT"
                 /\ hist' = [h1 EXCEPT !.atPoll = seen]
    /\ UNCHANGED <<config, sem, woken, sigPending, sigsSent, status, inflight,
                   exitCode, harness>>

\* main:55-63 with the select! in a loop: main polls the race again
OrchReturnLoops ==
    /\ pc.main = "return"
    /\ pc' = [pc EXCEPT !.main = "select"]
    /\ UNCHANGED <<config, sem, woken, sigPending, sigsSent, status, timer,
                   inflight, outcome, exitCode, harness, hist>>

\* main:63 Ok(()), with a reset of the health status on the way out
OrchReturnRestoresServing ==
    /\ pc.main = "return"
    /\ exitCode' = 0
    /\ pc' = RuntimeDrop(pc)
    /\ status' = SetServiceStatus(status, "", "SERVING")
    /\ UNCHANGED <<config, sem, woken, sigPending, sigsSent, timer, inflight,
                   outcome, harness, hist>>

\* main:63 Ok(()): the process exits 0 and the runtime drops the other tasks
OrchReturn ==
    /\ pc.main = "return"
    /\ exitCode' = 0
    /\ pc' = RuntimeDrop(pc)
    /\ UNCHANGED <<config, sem, woken, sigPending, sigsSent, status, timer,
                   inflight, outcome, harness, hist>>

\* ---- the environment and the listener task ----

\* a SIGINT reaches the process after the handler is installed
DeliverSignal ==
    /\ Running
    /\ pc.sig # "unspawned"
    /\ sigsSent < MaxSignals
    /\ sigsSent' = sigsSent + 1
    /\ sigPending' = TRUE
    /\ UNCHANGED <<config, pc, sem, woken, status, timer, inflight, outcome,
                   exitCode, harness, hist>>

\* shutdown_signal:73 sig.recv().await returns
SigRecv ==
    /\ Running
    /\ pc.sig = "recv"
    /\ sigPending
    /\ sigPending' = FALSE
    /\ pc' = [pc EXCEPT !.sig = "latch"]
    /\ UNCHANGED <<config, sem, woken, sigsSent, status, timer, inflight,
                   outcome, exitCode, harness, hist>>

\* shutdown_signal:74-76 tx.latch(), then the task ends
SigLatch ==
    /\ Running
    /\ pc.sig = "latch"
    /\ sem' = LatchLatch(sem)
    /\ woken' = woken \cup LatchWakes(sem)
    /\ pc' = [pc EXCEPT !.sig = "done"]
    /\ hist' = Latched(hist, sem, sem')
    /\ UNCHANGED <<config, sigPending, sigsSent, status, timer, inflight,
                   outcome, exitCode, harness>>

\* ---- the server task ----

\* serve_with_shutdown given a shutdown future that is ready at once
SrvStartShutdownReady ==
    /\ Running
    /\ pc.srv = "spawned"
    /\ pc' = [pc EXCEPT !.srv = "draining"]
    /\ UNCHANGED <<config, sem, woken, sigPending, sigsSent, status, timer,
                   inflight, outcome, exitCode, harness, hist>>

\* main:33-36 first poll of serve_with_shutdown: bind, then poll the shutdown
\* future, which is a wait() on the latch
SrvStart ==
    /\ Running
    /\ pc.srv = "spawned"
    /\ \E bindOk \in BOOLEAN :
         IF bindOk
         THEN LET r == LatchWaitPoll(sem, "srv") IN
              /\ sem' = r.sem
              /\ pc' = [pc EXCEPT !.srv = IF r.ready THEN "draining" ELSE "serving"]
              /\ hist' = Waited(hist, r, "srv")
         ELSE /\ sem' = sem
              /\ pc' = [pc EXCEPT !.srv = "failed"]
              /\ hist' = [Resolved(hist, "failed", pc) EXCEPT !.bindFailed = TRUE]
    /\ UNCHANGED <<config, woken, sigPending, sigsSent, status, timer, inflight,
                   outcome, exitCode, harness>>

\* the server accepts a connection
SrvAccept ==
    /\ Running
    /\ pc.srv = "serving"
    /\ inflight < MaxInflight
    /\ inflight' = inflight + 1
    /\ UNCHANGED <<config, pc, sem, woken, sigPending, sigsSent, status, timer,
                   outcome, exitCode, harness, hist>>

\* a connection finishes
SrvFinishWork ==
    /\ Running
    /\ pc.srv \in {"serving", "draining"}
    /\ inflight > 0
    /\ inflight' = inflight - 1
    /\ UNCHANGED <<config, pc, sem, woken, sigPending, sigsSent, status, timer,
                   outcome, exitCode, harness, hist>>

\* the server ends with a transport error; its pending wait() is dropped
SrvFail ==
    /\ Running
    /\ pc.srv \in {"serving", "draining"}
    /\ pc' = [pc EXCEPT !.srv = "failed"]
    /\ sem' = [sem EXCEPT !.waiters = @ \ {"srv"}]
    /\ woken' = woken \ {"srv"}
    /\ hist' = Resolved(hist, "failed", pc)
    /\ UNCHANGED <<config, sigPending, sigsSent, status, timer, inflight,
                   outcome, exitCode, harness>>

\* main:34-35 the shutdown future resolves: no longer accepting new connections
SrvShutdownResolved ==
    /\ Running
    /\ pc.srv = "serving"
    /\ "srv" \in woken
    /\ woken' = woken \ {"srv"}
    /\ LET r == LatchWaitPoll(sem, "srv") IN
       /\ sem' = r.sem
       /\ pc' = [pc EXCEPT !.srv = IF r.ready THEN "draining" ELSE "serving"]
       /\ hist' = Waited(hist, r, "srv")
    /\ UNCHANGED <<config, sigPending, sigsSent, status, timer, inflight,
                   outcome, exitCode, harness>>

\* every connection is gone: serve_with_shutdown returns Ok
SrvDrainComplete ==
    /\ Running
    /\ pc.srv = "draining"
    /\ inflight = 0
    /\ pc' = [pc EXCEPT !.srv = "done_ok"]
    /\ hist' = Resolved(hist, "drain", pc)
    /\ UNCHANGED <<config, sem, woken, sigPending, sigsSent, status, timer,
                   inflight, outcome, exitCode, harness>>

\* ---- time ----

\* main:48 one unit of the sleep passes
Tick ==
    /\ Running
    /\ timer.armed
    /\ timer.left > 0
    /\ timer' = [timer EXCEPT !.left = @ - 1]
    /\ hist' = IF timer.left = 1 THEN Resolved(hist, "timer", pc) ELSE hist
    /\ UNCHANGED <<config, pc, sem, woken, sigPending, sigsSent, status,
                   inflight, outcome, exitCode, harness>>

Next ==
    \/ OrchInstallSignal \/ OrchSpawnServer \/ OrchWait \/ OrchWaitResume
    \/ OrchSetStatus \/ OrchSelect \/ OrchReturn
    \/ DeliverSignal \/ SigRecv \/ SigLatch
    \/ SrvStart \/ SrvAccept \/ SrvFinishWork \/ SrvFail
    \/ SrvShutdownResolved \/ SrvDrainComplete
    \/ Tick

Spec == Init /\ [][Next]_vars

\* the tokio scheduler runs every task that is ready and time passes; the
\* environment owes no signal, and a connection may stay open forever
FairSpec ==
    /\ Spec
    /\ WF_vars(OrchInstallSignal) /\ WF_vars(OrchSpawnServer)
    /\ WF_vars(OrchWait) /\ WF_vars(OrchWaitResume) /\ WF_vars(OrchSetStatus)
    /\ WF_vars(OrchSelect) /\ WF_vars(OrchReturn)
    /\ WF_vars(SigRecv) /\ WF_vars(SigLatch)
    /\ WF_vars(SrvStart) /\ WF_vars(SrvShutdownResolved)
    /\ WF_vars(SrvDrainComplete)
    /\ WF_vars(Tick)

\* ---- the Latch on its own: any holder of a clone may latch() or wait() ----

\* Latch::latch from holder h
HolderLatch(h) ==
    /\ hpc[h] = "idle"
    /\ hcalls[h] < MaxCalls
    /\ hcalls' = [hcalls EXCEPT ![h] = @ + 1]
    /\ sem' = LatchLatch(sem)
    /\ woken' = woken \cup LatchWakes(sem)
    /\ hist' = Latched(hist, sem, sem')
    /\ UNCHANGED <<config, pc, sigPending, sigsSent, status, timer, inflight,
                   outcome, exitCode, hpc>>

\* Latch::wait from holder h, first poll
HolderWait(h) ==
    /\ hpc[h] = "idle"
    /\ hcalls[h] < MaxCalls
    /\ hcalls' = [hcalls EXCEPT ![h] = @ + 1]
    /\ LET r == LatchWaitPoll(sem, h) IN
       /\ sem' = r.sem
       /\ hpc' = [hpc EXCEPT ![h] = IF r.ready THEN "idle" ELSE "suspended"]
       /\ hist' = Waited(hist, r, h)
    /\ UNCHANGED <<config, pc, woken, sigPending, sigsSent, status, timer,
                   inflight, outcome, exitCode>>

\* Latch::wait from holder h, polled again after a wake
HolderWaitResume(h) ==
    /\ hpc[h] = "suspended"
    /\ h \in woken
    /\ woken' = woken \ {h}
    /\ LET r == LatchWaitPoll(sem, h) IN
       /\ sem' = r.sem
       /\ hpc' = [hpc EXCEPT ![h] = IF r.ready THEN "idle" ELSE "suspended"]
       /\ hist' = Waited(hist, r, h)
    /\ UNCHANGED <<config, pc, sigPending, sigsSent, status, timer, inflight,
                   outcome, exitCode, hcalls>>

LatchNext ==
    \E h \in Holders : HolderLatch(h) \/ HolderWait(h) \/ HolderWaitResume(h)

\* the latch is exercised with the rest of the program at rest
LatchInit == Init /\ addrOk /\ sigInstallOk /\ grace = None

LatchSpec == LatchInit /\ [][LatchNext]_vars

\* a woken task is polled again
FairLatchSpec ==
    LatchSpec /\ \A h \in Holders : WF_vars(HolderWaitResume(h))

\* ======================= properties =======================

Decided == outcome \in {"GRACEFUL_EXIT", "FORCED_EXIT"}

\* C1: a server that ends with an error while main is RUNNING and no signal is
\* ever delivered leads to the outcome FATAL and a non-zero exit code
C1_FatalWithoutSignal ==
    (pc.srv = "failed" /\ sigsSent = 0)
        ~> (sigsSent > 0 \/ (outcome = "FATAL" /\ exitCode > 0))

\* C2: a wait() issued once the latch is closed returns without suspending,
\* and a waiter suspended when the latch is closed eventually returns
C2_NoMissedWakeup ==
    /\ [][\A h \in Holders :
            (sem.closed /\ hpc[h] = "idle") => hpc'[h] = "idle"]_vars
    /\ \A h \in Holders :
            (sem.closed /\ hpc[h] = "suspended") ~> (hpc[h] = "idle")

C2_Witness ==
    /\ sem.closed
    /\ \E h1, h2 \in Holders :
         /\ h1 \in hist.suspendedOnce /\ h1 \in hist.returned
         /\ h2 \in hist.returned \ hist.suspendedOnce
         /\ hpc[h1] = "idle" /\ hpc[h2] = "idle"

\* C3 as stated: the future that resolved first while draining decides the
\* outcome, whatever happens before main polls the select
C3_FirstResolvedWins ==
    Decided =>
        /\ hist.firstResolved = "drain" => outcome = "GRACEFUL_EXIT"
        /\ hist.firstResolved = "timer" => outcome = "FORCED_EXIT"

\* C3 amended: the outcome is decided by what is ready when the select is
\* polled: GRACEFUL_EXIT only with the server task finished, FORCED_EXIT only
\* with the sleep elapsed, and a future that is the only ready one wins
C3_RaceDecidedAtPoll ==
    /\ outcome = "GRACEFUL_EXIT" => JoinReady(pc) /\ hist.atPoll.join
    /\ outcome = "FORCED_EXIT" => Elapsed(timer) /\ hist.atPoll.timeout
    /\ hist.atPoll.decided /\ hist.atPoll.join /\ ~hist.atPoll.timeout
         => outcome = "GRACEFUL_EXIT"
    /\ hist.atPoll.decided /\ hist.atPoll.timeout /\ ~hist.atPoll.join
         => outcome = "FORCED_EXIT"

C3_Witness ==
    /\ outcome = "GRACEFUL_EXIT"
    /\ hist.firstResolved = "drain"
    /\ timer.armed /\ timer.left > 0
    /\ pc.srv = "done_ok"

\* C4: with a finite grace period a delivered signal leads to the exit of the
\* process, whether or not the server ever finishes draining
C4_FiniteGraceTerminates ==
    (grace.some /\ sigsSent > 0) ~> (pc.main = "exited")

C4_Witness ==
    /\ grace.some /\ grace.ms > 0 /\ sigsSent > 0
    /\ pc.main = "exited" /\ outcome = "FORCED_EXIT"
    /\ pc.srv = "cancelled" /\ inflight > 0

\* C5: without a grace period the timeout arm never resolves: FORCED_EXIT is
\* unreachable, main gets past the select only with the server task finished,
\* and a finished server after the signal leads to GRACEFUL_EXIT
C5_UnboundedNeverForced ==
    /\ [](~grace.some => outcome # "FORCED_EXIT" /\ ~timer.armed)
    /\ [](~grace.some /\ pc.main \in {"return", "exited"}
            /\ outcome # "STARTUP_FAILURE"
          => JoinReady(pc) /\ outcome = "GRACEFUL_EXIT")
    /\ (~grace.some /\ sem.closed /\ JoinReady(pc))
          ~> (outcome = "GRACEFUL_EXIT")

C5_Witness ==
    /\ ~grace.some
    /\ outcome = "GRACEFUL_EXIT" /\ pc.main = "exited"
    /\ pc.srv = "done_ok" /\ sigsSent > 0

\* C6: the status of the default service never goes from NOT_SERVING back to
\* SERVING
C6_StatusMonotonic ==
    [][status[""] = "NOT_SERVING" => status'[""] = "NOT_SERVING"]_vars

C6_Witness == status[""] = "NOT_SERVING" /\ pc.main = "exited"

\* C7: however many latch() calls are made, the latch goes from open to closed
\* exactly once, a call that finds it closed changes nothing, and it never
\* reopens
C7_LatchIdempotent ==
    /\ [](hist.closeTransitions <= 1)
    /\ [](hist.latchCalls >= 1 => sem.closed /\ hist.closeTransitions = 1)
    /\ [][sem.closed => sem'.closed]_vars
    /\ [][(\E h \in Holders : HolderLatch(h)) /\ sem.closed => sem' = sem]_vars

C7_Witness ==
    /\ hist.latchCalls >= 3
    /\ hist.closeTransitions = 1
    /\ sem.closed
    /\ hist.suspendedOnce # {}

\* C8: with two or more signals DRAINING is entered once, the status is set
\* once, one sleep is created, and a signal that arrives while main is draining
\* changes neither the sleep nor main's position nor the status
C8_DoubleSignalSafe ==
    /\ [](hist.drainEntries <= 1 /\ hist.statusSets <= 1 /\ timer.starts <= 1)
    /\ [](grace.some /\ (pc.main = "select_pending" \/ outcome = "FORCED_EXIT")
            => timer.starts = 1)
    /\ [][(DeliverSignal \/ SigRecv \/ SigLatch) /\ pc.main \in Draining
            => /\ timer' = timer
               /\ pc'.main = pc.main
               /\ status' = status
               /\ hist'.drainEntries = hist.drainEntries
               /\ hist'.statusSets = hist.statusSets]_vars

C8_Witness ==
    /\ sigsSent >= 2
    /\ hist.drainEntries = 1 /\ hist.statusSets = 1 /\ timer.starts = 1
    /\ outcome = "FORCED_EXIT"

\* C9: when the server task and the sleep are both ready at the poll of the
\* select, the outcome is FORCED_EXIT (read here on the runs whose server
\* drained cleanly)
C9_TimeoutWinsTies ==
    (hist.atPoll.decided /\ hist.atPoll.join /\ hist.atPoll.timeout
        /\ pc.srv = "done_ok")
        => outcome = "FORCED_EXIT"

\* C10: with a grace period of 0 every run that gets a signal ends in
\* FORCED_EXIT, the work in flight when the latch closes never completing the
\* drain first (read here on the runs whose server did not fail)
C10_ZeroGraceAlwaysForced ==
    (grace = Some(0) /\ sigsSent > 0 /\ Decided /\ pc.srv # "failed")
        => outcome = "FORCED_EXIT"

\* the server's shutdown future has resolved: it accepts no new connections
StoppedAccepting == "srv" \in hist.returned

\* the race has begun: the sleep exists or the select has been polled
RaceBegun ==
    timer.starts > 0 \/ pc.main \in {"select_pending", "return"} \/ Decided

\* C11 as stated: whenever the server has stopped accepting new connections,
\* the status is already NOT_SERVING
C11_StatusBeforeStopAccepting ==
    StoppedAccepting => status[""] = "NOT_SERVING"

\* C11 amended: the status is set to NOT_SERVING exactly once, by main between
\* the return of its wait() and the first poll of the select, with the latch
\* closed; nothing orders it against the server's stop-accepting step
C11_StatusSetOnceAfterLatch ==
    /\ [](hist.statusSets <= 1)
    /\ []((status[""] = "NOT_SERVING") <=> (hist.statusSets = 1))
    /\ [](pc.main \in {"select", "select_pending", "return"}
            => status[""] = "NOT_SERVING")
    /\ [][status' # status
            => sem.closed /\ pc.main = "set_status" /\ ~RaceBegun]_vars

C11_Witness ==
    /\ status[""] = "NOT_SERVING" /\ hist.statusSets = 1
    /\ StoppedAccepting
    /\ pc.srv = "draining"

C13_BindFailureIsFatal ==
    (hist.bindFailed /\ pc.main = "exited")
        => (exitCode > 0 /\ outcome = "STARTUP_FAILURE")

\* C14: a server task that ended with an error (here one after a successful
\* bind) makes the run end FATAL with a non-zero exit code
C14_ErrorIsFatal ==
    (pc.srv = "failed" /\ ~hist.bindFailed /\ pc.main = "exited")
        => (outcome = "FATAL" /\ exitCode > 0)

\* C15 as stated: when the race begins the status is NOT_SERVING and the
\* server's shutdown future has resolved
C15_BothDoneBeforeRace ==
    RaceBegun
        => status[""] = "NOT_SERVING" /\ pc.srv \notin {"spawned", "serving"}

\* C15 amended: when the race begins the status is NOT_SERVING and the latch
\* is closed, so a serving server has been woken to stop accepting; its
\* shutdown future may resolve after the select is first polled
C15_RaceAfterStatusAndLatch ==
    /\ [](RaceBegun
            => /\ status[""] = "NOT_SERVING"
               /\ sem.closed
               /\ (pc.srv = "serving" => "srv" \in woken))
    /\ [][OrchSelect => status[""] = "NOT_SERVING" /\ sem.closed]_vars

C15_Witness ==
    /\ RaceBegun /\ timer.armed
    /\ status[""] = "NOT_SERVING"
    /\ pc.srv = "serving" /\ "srv" \in woken

\* C16: a wait() that has returned implies the latch is closed
C16_WaitReturnsOnlyClosed ==
    hist.returned # {} => sem.closed

C16_Witness ==
    /\ Cardinality(hist.returned) = 3
    /\ Cardinality(hist.suspendedOnce) >= 2
    /\ sem.closed

\* C17: the outcome is set once and never changes, main's only step after the
\* decision is its return, and nothing moves after the exit
C17_OneTerminalState ==
    /\ [][outcome # "NONE" => outcome' = outcome]_vars
    /\ [][Decided /\ pc'.main # pc.main
            => pc.main = "return" /\ pc'.main = "exited"]_vars
    /\ [][pc.main = "exited"
            => UNCHANGED <<pc, outcome, exitCode, status, timer, sem>>]_vars
    /\ [](Decided <=> hist.atPoll.decided)

C17_Witness ==
    /\ outcome = "GRACEFUL_EXIT" /\ pc.main = "exited" /\ exitCode = 0
    /\ Elapsed(timer)

\* C18: a NOT_SERVING status, a started sleep or a decided race imply that
\* the latch is closed
C18_LatchClosedFirst ==
    (status[""] = "NOT_SERVING" \/ timer.starts > 0 \/ Decided) => sem.closed

C18_Witness ==
    /\ status[""] = "NOT_SERVING" /\ timer.armed /\ timer.left > 0
    /\ outcome = "NONE" /\ sem.closed

\* C19: a server that has stopped accepting new connections implies that the
\* listener has called latch() and the latch is closed
C19_ServerStopsAfterLatch ==
    (pc.srv \in {"draining", "done_ok"} \/ StoppedAccepting)
        => sem.closed /\ pc.sig = "done" /\ hist.latchCalls = 1

C19_Witness ==
    /\ pc.srv = "draining" /\ inflight > 0
    /\ "srv" \in hist.suspendedOnce /\ StoppedAccepting
====
